---- MODULE Spec2Model ----
(***************************************************************************)
(* Legal research snippets service: the JSON-file backend                  *)
(* (legal_snippets_server.py) and the relational backend                   *)
(* (legal_snippets_postgres_server.py), modelled as one state machine.     *)
(* A deployment runs one of the two backends; `backend` is fixed by Init.  *)
(***************************************************************************)
EXTENDS Integers, Sequences, FiniteSets, TLC

VARIABLES
    backend,       \* "json" or "pg": which server module is running
    file,          \* legal_snippets.json: <<>> when absent, else <<document>>
    table,         \* rows of legal_snippets (relational backend)
    serial,        \* last value handed out by the id SERIAL sequence
    pool,          \* _db_pool is not None
    model,         \* embedding_service.model is not None
    loads,         \* how many times SentenceTransformer(...) was constructed
    now,           \* wall clock / CURRENT_TIMESTAMP
    fault,         \* environment condition: "none", "store", "embedding"
    ret,           \* the last tool call and what it returned
    issued,        \* ids returned by successful create_snippet calls, in order
    deleted,       \* ids for which delete_snippet has returned success
    inflight,      \* the update_snippet calls between their SELECT and their UPDATE
    calls          \* per client: where its call stands in `async with get_db()`

vars ==
    <<backend, file, table, serial, pool, model, loads, now, fault, ret, issued, deleted,
      inflight, calls>>

----------------------------------------------------------------------------
(* Bounds of the model *)

MaxId == 3       \* create_snippet is called while fewer ids than this were handed out
MaxClock == 3    \* the clock readings are 0..MaxClock

----------------------------------------------------------------------------
(* Values *)

None == <<"<None>">>         \* Python None passed for an Optional[str] / Optional[List[str]]
NoneS == "<None>"            \* Python None passed for case_type in update_snippet
Empty == <<>>                \* "" or []

Falsy(v) == v = None \/ v = Empty
FalsyS(v) == v = NoneS \/ v = ""

Min(a, b) == IF a <= b THEN a ELSE b

Range(s) == { s[i] : i \in 1..Len(s) }

\* every enumeration of the finite set S as a sequence without repetition
RECURSIVE SeqsOf(_)
SeqsOf(S) ==
    IF S = {} THEN { <<>> }
    ELSE UNION { { <<x>> \o p : p \in SeqsOf(S \ { x }) } : x \in S }

----------------------------------------------------------------------------
(* Text matching *)

\* str.lower() / the case folding ILIKE applies
Lower(ch) ==
    CASE ch = "S" -> "s"
      [] ch = "J" -> "j"
      [] OTHER -> ch

LowerText(t) == [i \in 1..Len(t) |-> Lower(t[i])]

\* Python `q in s` on strings
Contains(q, s) ==
    \E i \in 0..(Len(s) - Len(q)) : SubSeq(s, i + 1, i + Len(q)) = q

\* SQL LIKE: % matches any run of characters, _ matches exactly one
RECURSIVE LikeMatch(_, _)
LikeMatch(p, s) ==
    IF p = <<>> THEN s = <<>>
    ELSE IF Head(p) = "%" THEN LikeMatch(Tail(p), s) \/ (s # <<>> /\ LikeMatch(p, Tail(s)))
    ELSE IF s = <<>> THEN FALSE
    ELSE IF Head(p) = "_" THEN LikeMatch(Tail(p), Tail(s))
    ELSE Head(p) = Head(s) /\ LikeMatch(Tail(p), Tail(s))

\* column ILIKE $1 with $1 = f"%{query}%"
ILikeQuery(col, query) ==
    LikeMatch(LowerText(<<"%">> \o query \o <<"%">>), LowerText(col))

\* tags && $n (array overlap) and any(tag in snippet["tags"] for tag in tags)
TagsOverlap(a, b) == Range(a) \cap Range(b) # {}

----------------------------------------------------------------------------
(* Embeddings (relational backend) *)

\* the unit vectors the sentence-transformer model can return, scaled by 5
Vecs == << <<5, 0>>, <<4, 3>>, <<3, 4>>, <<0, 5>>, <<-3, 4>>, <<-4, 3>>, <<-5, 0>> >>

Code(ch) ==
    CASE ch = "S" -> 1 [] ch = "m" -> 2 [] ch = "J" -> 3 [] ch = "o" -> 4
      [] ch = "d" -> 5 [] ch = "c" -> 6 [] ch = "s" -> 7 [] ch = "n" -> 8
      [] ch = "b" -> 9 [] ch = "_" -> 10 [] OTHER -> 11

RECURSIVE TextHash(_)
TextHash(t) == IF t = <<>> THEN 0 ELSE Code(Head(t)) + 3 * TextHash(Tail(t))

\* EmbeddingService.encode_text: a deterministic function of the text
encode_text(text) == Vecs[(TextHash(text) % Len(Vecs)) + 1]

combined_text(citation, key_language, context) ==
    <<"Citation: ">> \o citation \o <<". Key Language: ">> \o key_language
        \o (IF context # Empty THEN <<" Context: ">> \o context ELSE <<>>)

generate_embeddings(citation, key_language, context) ==
    [ citation_embedding |-> encode_text(citation),
      key_language_embedding |-> encode_text(key_language),
      combined_embedding |-> encode_text(combined_text(citation, key_language, context)) ]

\* a <=> b is the cosine distance; 1 - (a <=> b), in fiftieths (the vectors have norm 5)
SimilarityScore(a, b) == 2 * (a[1] * b[1] + a[2] * b[2])

----------------------------------------------------------------------------
(* JSON text and the text export *)

Tok(t) == [tok |-> t]
Obj(v) == [tok |-> "object", value |-> v]

\* the members of a list, separated by commas
RECURSIVE Elements(_)
Elements(s) ==
    IF s = <<>> THEN <<>>
    ELSE IF Len(s) = 1 THEN <<Obj(s[1])>>
    ELSE <<Obj(Head(s)), Tok(",")>> \o Elements(Tail(s))

\* json.dumps of a list of dicts, as its sequence of tokens
json_dumps(s) == <<Tok("[")>> \o Elements(s) \o <<Tok("]")>>

\* a token sequence that is a JSON list: brackets around members and commas in turn
IsJsonList(doc) ==
    /\ Len(doc) >= 2 /\ doc[1].tok = "[" /\ doc[Len(doc)].tok = "]"
    /\ Len(doc) > 2 => Len(doc) % 2 = 1
    /\ \A i \in 2..(Len(doc) - 1) : doc[i].tok = IF i % 2 = 0 THEN "object" ELSE ","

\* json.loads of a JSON list
json_loads(doc) == [i \in 1..((Len(doc) - 1) \div 2) |-> doc[2 * i].value]

\* datetime.isoformat() and its inverse
isoformat(t) == [iso |-> t]
fromisoformat(v) == v.iso

Line(label, value) == [label |-> label, value |-> value]
Separator == [label |-> "-", value |-> 50]

RECURSIVE Flatten(_)
Flatten(ss) == IF ss = <<>> THEN <<>> ELSE Head(ss) \o Flatten(Tail(ss))

----------------------------------------------------------------------------
(* What a tool call returned *)

Returned(op, args, val) == [op |-> op, args |-> args, raised |-> FALSE, val |-> val]
Raised(op, args) == [op |-> op, args |-> args, raised |-> TRUE, val |-> "exception"]

Success == [status |-> "success"]
Created(id) == [status |-> "success", snippet_id |-> id]
NotFound == [status |-> "error", message |-> "not found"]
Failed == [status |-> "error", message |-> "failed"]
ErrorEntry == [error |-> "failed"]
NotFoundEntry == [error |-> "not found"]
ExportFailed == <<Tok("Export failed")>>     \* export_snippets returning f"Export failed: ..."
ErrorTags == <<"Error: failed">>              \* list_tags returning [f"Error: ..."]
NoSnippet == [found |-> FALSE]                \* get_snippet returning None
Found(s) == [found |-> TRUE, snippet |-> s]

\* The clock: a mutating call reads a value later than every value read before it;
\* a second reading within the same call is the same value or a later one.
Ticks(t) == { u \in 1..MaxClock : u = t + 1 }
Again(t) == { u \in 1..MaxClock : u = t \/ u = t + 1 }

\* create_snippet called with context and case_type omitted (their defaults, "" and
\* "civil"), and with both given
CreateArgs ==
    { [citation |-> <<"S", "m">>, key_language |-> <<"d", "c">>, tags |-> <<"n", "t">>,
       context |-> Empty, case_type |-> "civil"],
      [citation |-> <<"J", "o">>, key_language |-> <<"d", "c">>, tags |-> <<"k">>,
       context |-> Empty, case_type |-> "civil"],
      [citation |-> <<"J", "o">>, key_language |-> <<"s", "o">>, tags |-> <<"k">>,
       context |-> <<"n", "b">>, case_type |-> "criminal"] }

----------------------------------------------------------------------------
(* JSON backend: legal_snippets_server.py *)

EmptyDocument == [snippets |-> <<>>, next_id |-> 1]

load_snippets == IF file # <<>> THEN file[1] ELSE EmptyDocument

save_snippets(data) == <<data>>

JsonNextIdFromCount(data) == Len(data.snippets) + 1

\* "id": data["next_id"]
JsonNextId(data) == data.next_id

JsonNewSnippet(data, a, t1, t2) ==
    [ id |-> JsonNextId(data), citation |-> a.citation, key_language |-> a.key_language,
      tags |-> a.tags, context |-> a.context, case_type |-> a.case_type,
      created_at |-> t1, updated_at |-> t2 ]

JsonCreateNoIncrement(data, a, t1, t2) ==
    [ snippets |-> Append(data.snippets, JsonNewSnippet(data, a, t1, t2)),
      next_id |-> data.next_id ]

JsonCreate(data, a, t1, t2) ==
    [ snippets |-> Append(data.snippets, JsonNewSnippet(data, a, t1, t2)),
      next_id |-> data.next_id + 1 ]

\* the first index holding snippet_id, 0 when there is none
JsonIndexOf(data, snippet_id) ==
    IF \E i \in 1..Len(data.snippets) : data.snippets[i].id = snippet_id
    THEN CHOOSE i \in 1..Len(data.snippets) :
            /\ data.snippets[i].id = snippet_id
            /\ \A j \in 1..(i - 1) : data.snippets[j].id # snippet_id
    ELSE 0

JsonGet(data, snippet_id) ==
    IF JsonIndexOf(data, snippet_id) = 0 THEN NoSnippet
    ELSE Found(data.snippets[JsonIndexOf(data, snippet_id)])

JsonUpdatedOverwrite(s, a, t) ==
    [ id |-> s.id, citation |-> a.citation, key_language |-> a.key_language,
      tags |-> a.tags, context |-> a.context, case_type |-> a.case_type,
      created_at |-> s.created_at, updated_at |-> t ]

JsonUpdated(s, a, t) ==
    [ id |-> s.id,
      citation |-> IF ~Falsy(a.citation) THEN a.citation ELSE s.citation,
      key_language |-> IF ~Falsy(a.key_language) THEN a.key_language ELSE s.key_language,
      tags |-> IF ~Falsy(a.tags) THEN a.tags ELSE s.tags,
      context |-> IF ~Falsy(a.context) THEN a.context ELSE s.context,
      case_type |-> IF ~FalsyS(a.case_type) THEN a.case_type ELSE s.case_type,
      created_at |-> s.created_at,
      updated_at |-> t ]

JsonUpdate(data, snippet_id, a, t) ==
    [ data EXCEPT !.snippets[JsonIndexOf(data, snippet_id)] =
                      JsonUpdated(data.snippets[JsonIndexOf(data, snippet_id)], a, t) ]

JsonDelete(data, snippet_id) ==
    [ data EXCEPT !.snippets = SelectSeq(data.snippets, LAMBDA s : s.id # snippet_id) ]

\* len(data["snippets"]) < original_count
JsonDeleteResult(data, snippet_id) ==
    IF Len(JsonDelete(data, snippet_id).snippets) < Len(data.snippets)
    THEN Success ELSE NotFound

JsonMatches(s, query, tags) ==
    IF query # Empty /\ ( \/ Contains(LowerText(query), LowerText(s.citation))
                          \/ Contains(LowerText(query), LowerText(s.key_language))
                          \/ Contains(LowerText(query), LowerText(s.context)) )
    THEN TRUE
    ELSE IF ~Falsy(tags) /\ TagsOverlap(tags, s.tags) THEN TRUE
    ELSE Falsy(query) /\ Falsy(tags)

JsonSearch(data, query, tags) ==
    SelectSeq(data.snippets, LAMBDA s : JsonMatches(s, query, tags))

\* the code point of a tag's first character: the order sorted() and ORDER BY tag
\* put the tags of the inputs in
TagCode(tag) ==
    CASE tag = "k" -> 107 [] tag = "n" -> 110 [] tag = "t" -> 116 [] OTHER -> 0

SortedTagsDesc(S) ==
    CHOOSE s \in SeqsOf(S) : \A i, j \in 1..Len(s) : i < j => TagCode(s[i]) > TagCode(s[j])

\* sorted(list(all_tags)) and SELECT DISTINCT ... ORDER BY tag
SortedTags(S) ==
    CHOOSE s \in SeqsOf(S) : \A i, j \in 1..Len(s) : i < j => TagCode(s[i]) < TagCode(s[j])

JsonListTags(data) ==
    SortedTags(UNION { Range(data.snippets[i].tags) : i \in 1..Len(data.snippets) })

JsonTextLines(snippet) ==
    << Line("Citation", snippet.citation), Line("Key Language", snippet.key_language),
       Line("Tags", snippet.tags) >>
    \o (IF snippet.context # Empty THEN <<Line("Context", snippet.context)>> ELSE <<>>)
    \o << Line("Created", snippet.created_at), Separator >>

JsonExport(data, format) ==
    IF format = "text"
    THEN Flatten([i \in 1..Len(data.snippets) |-> JsonTextLines(data.snippets[i])])
    ELSE json_dumps(data.snippets)

----------------------------------------------------------------------------
(* Relational backend: legal_snippets_postgres_server.py *)

\* the columns every SELECT of the tool surface lists (no embedding columns)
Public(r) ==
    [ id |-> r.id, citation |-> r.citation, key_language |-> r.key_language,
      tags |-> r.tags, context |-> r.context, case_type |-> r.case_type,
      created_at |-> r.created_at, updated_at |-> r.updated_at ]

WithScore(r, qe) ==
    [ id |-> r.id, citation |-> r.citation, key_language |-> r.key_language,
      tags |-> r.tags, context |-> r.context, case_type |-> r.case_type,
      created_at |-> r.created_at, updated_at |-> r.updated_at,
      similarity_score |-> SimilarityScore(r.combined_embedding, qe) ]

\* encode_text raises when the model was never loaded or the model runtime fails
EncodeOk == model /\ fault # "embedding"

\* get_db: initialize_db on the first use, then acquire a connection
GetDbOk == fault # "store" /\ (pool \/ fault # "embedding")
PoolAfterGetDb == pool \/ fault # "store"
ModelAfterGetDb == model \/ (~pool /\ fault = "none")

LoadsAfterInitializeUnguarded(m, n) == n + 1

\* EmbeddingService.initialize: the model is constructed only if self.model is None
LoadsAfterInitialize(m, n) == IF ~m THEN n + 1 ELSE n

LoadsAfterGetDb ==
    IF ~pool /\ fault = "none" THEN LoadsAfterInitialize(model, loads) ELSE loads

PgInsertRowDefaultCaseType(id, a, emb, t) ==
    [ id |-> id, citation |-> a.citation, key_language |-> a.key_language,
      tags |-> a.tags, context |-> a.context, case_type |-> "civil",
      created_at |-> t, updated_at |-> t,
      citation_embedding |-> emb.citation_embedding,
      key_language_embedding |-> emb.key_language_embedding,
      combined_embedding |-> emb.combined_embedding ]

\* id SERIAL PRIMARY KEY: the next value of the sequence
PgNextval(last) == last + 1

\* INSERT ... RETURNING id: both timestamps default to CURRENT_TIMESTAMP
PgInsertRow(id, a, emb, t) ==
    [ id |-> id, citation |-> a.citation, key_language |-> a.key_language,
      tags |-> a.tags, context |-> a.context, case_type |-> a.case_type,
      created_at |-> t, updated_at |-> t,
      citation_embedding |-> emb.citation_embedding,
      key_language_embedding |-> emb.key_language_embedding,
      combined_embedding |-> emb.combined_embedding ]

PgRowsById(rows, snippet_id) == { r \in rows : r.id = snippet_id }

\* SELECT citation, key_language, context ... WHERE id = $1
PgCurrent(rows, snippet_id) ==
    LET r == CHOOSE x \in PgRowsById(rows, snippet_id) : TRUE
    IN  [citation |-> r.citation, key_language |-> r.key_language, context |-> r.context]

\* x or y
Or(x, y) == IF ~Falsy(x) THEN x ELSE y

\* COALESCE($n, column)
Coalesce(x, y) == IF x # None THEN x ELSE y
CoalesceS(x, y) == IF x # NoneS THEN x ELSE y

PgTextChanged(a) == ~Falsy(a.citation) \/ ~Falsy(a.key_language) \/ ~Falsy(a.context)

\* the embeddings update_snippet computes from the values it read
PgUpdateEmbeddings(current, a) ==
    generate_embeddings(Or(a.citation, current.citation),
                        Or(a.key_language, current.key_language),
                        Or(a.context, current.context))

PgUpdatedRowSuppliedColumnsOnly(r, current, a, t) ==
    IF PgTextChanged(a)
    THEN [ r EXCEPT !.citation = Or(a.citation, r.citation),
                    !.key_language = Or(a.key_language, r.key_language),
                    !.tags = Coalesce(a.tags, r.tags),
                    !.context = Or(a.context, r.context),
                    !.case_type = CoalesceS(a.case_type, r.case_type),
                    !.citation_embedding = PgUpdateEmbeddings(current, a).citation_embedding,
                    !.key_language_embedding =
                        PgUpdateEmbeddings(current, a).key_language_embedding,
                    !.combined_embedding = PgUpdateEmbeddings(current, a).combined_embedding,
                    !.updated_at = t ]
    ELSE [ r EXCEPT !.tags = Coalesce(a.tags, r.tags),
                    !.case_type = CoalesceS(a.case_type, r.case_type),
                    !.updated_at = t ]

\* the row either UPDATE statement of update_snippet leaves behind
PgUpdatedRow(r, current, a, t) ==
    IF PgTextChanged(a)
    THEN [ r EXCEPT !.citation = Or(a.citation, current.citation),
                    !.key_language = Or(a.key_language, current.key_language),
                    !.tags = Coalesce(a.tags, r.tags),
                    !.context = Or(a.context, current.context),
                    !.case_type = CoalesceS(a.case_type, r.case_type),
                    !.citation_embedding = PgUpdateEmbeddings(current, a).citation_embedding,
                    !.key_language_embedding =
                        PgUpdateEmbeddings(current, a).key_language_embedding,
                    !.combined_embedding = PgUpdateEmbeddings(current, a).combined_embedding,
                    !.updated_at = t ]
    ELSE [ r EXCEPT !.tags = Coalesce(a.tags, r.tags),
                    !.case_type = CoalesceS(a.case_type, r.case_type),
                    !.updated_at = t ]

PgUpdate(rows, snippet_id, current, a, t) ==
    { IF r.id = snippet_id THEN PgUpdatedRow(r, current, a, t) ELSE r : r \in rows }

PgDelete(rows, snippet_id) == { r \in rows : r.id # snippet_id }

\* result == "DELETE 1"
PgDeleteResult(rows, snippet_id) ==
    IF Cardinality(rows) - Cardinality(PgDelete(rows, snippet_id)) = 1
    THEN Success ELSE NotFound

PgGet(rows, snippet_id) ==
    IF PgRowsById(rows, snippet_id) = {} THEN NoSnippet
    ELSE Found(Public(CHOOSE r \in PgRowsById(rows, snippet_id) : TRUE))

OrderedByCreatedDesc(s) ==
    \A i, j \in 1..Len(s) : i < j => s[i].created_at >= s[j].created_at

\* ORDER BY created_at: ascending, ties in any order
OrderedByCreated(s) == \A i, j \in 1..Len(s) : i < j => s[i].created_at <= s[j].created_at

PgExportOrders(rows) == { s \in SeqsOf(rows) : OrderedByCreated(s) }

PgTextLines(r) ==
    << Line("ID", r.id), Line("Citation", r.citation),
       Line("Key Language", r.key_language), Line("Tags", r.tags) >>
    \o (IF r.context # Empty THEN <<Line("Context", r.context)>> ELSE <<>>)
    \o << Line("Case Type", r.case_type), Line("Created", r.created_at), Separator >>

\* dict(row) with both timestamps converted by isoformat()
PgExportMember(r) ==
    [ Public(r) EXCEPT !.created_at = isoformat(r.created_at),
                       !.updated_at = isoformat(r.updated_at) ]

PgExport(s, format) ==
    IF format = "text"
    THEN Flatten([i \in 1..Len(s) |-> PgTextLines(s[i])])
    ELSE json_dumps([i \in 1..Len(s) |-> PgExportMember(s[i])])

\* SELECT DISTINCT unnest(tags) as tag FROM legal_snippets ORDER BY tag
PgListTags(rows) == SortedTags(UNION { Range(r.tags) : r \in rows })

PgTextMatch(r, query) ==
    \/ ILikeQuery(r.citation, query)
    \/ ILikeQuery(r.key_language, query)
    \/ ILikeQuery(r.context, query)

PgMatches(r, query, tags) ==
    IF ~Falsy(query) /\ ~Falsy(tags) THEN PgTextMatch(r, query) /\ TagsOverlap(r.tags, tags)
    ELSE IF ~Falsy(query) THEN PgTextMatch(r, query)
    ELSE IF ~Falsy(tags) THEN TagsOverlap(r.tags, tags)
    ELSE TRUE

\* ORDER BY updated_at DESC: any order of the rows that respects it
OrderedByUpdatedDesc(s) == \A i, j \in 1..Len(s) : i < j => s[i].updated_at >= s[j].updated_at

PgSearchOrders(rows, query, tags) ==
    { s \in SeqsOf({ r \in rows : PgMatches(r, query, tags) }) : OrderedByUpdatedDesc(s) }

PublicSeq(s) == [i \in 1..Len(s) |-> Public(s[i])]

\* the WHERE clause of semantic_search
SemFilter(r, qe, threshold, tags) ==
    /\ Falsy(tags) \/ TagsOverlap(r.tags, tags)
    /\ SimilarityScore(r.combined_embedding, qe) >= threshold

OrderedByDistanceDesc(s, qe) ==
    \A i, j \in 1..Len(s) :
        i < j => SimilarityScore(s[i].combined_embedding, qe)
                     <= SimilarityScore(s[j].combined_embedding, qe)

\* ORDER BY combined_embedding <=> $1: ascending distance, ties in any order
OrderedByDistance(s, qe) ==
    \A i, j \in 1..Len(s) :
        i < j => SimilarityScore(s[i].combined_embedding, qe)
                     >= SimilarityScore(s[j].combined_embedding, qe)

\* The rows an ORDER BY combined_embedding <=> $1 LIMIT n query visits. The planner
\* either scans the table, or scans idx_legal_snippets_combined_embedding, an ivfflat
\* index, which visits the rows of the list nearest to the probe vector: rows with
\* equal vectors share a list, and a row whose vector is the probe is in that list.
ScanSets(rows, qe) ==
    { V \in SUBSET rows :
        /\ \A r \in V : \A r2 \in rows :
              r2.combined_embedding = r.combined_embedding => r2 \in V
        /\ \A r \in rows : r.combined_embedding = qe => r \in V }

Limit(s, limit) == SubSeq(s, 1, Min(limit, Len(s)))

SemanticOrders(rows, qe, limit, threshold, tags) ==
    UNION { { Limit(s, limit) : s \in { o \in SeqsOf(F) : OrderedByDistance(o, qe) } } :
            F \in { { r \in V : SemFilter(r, qe, threshold, tags) } :
                       V \in ScanSets(rows, qe) } }

ScoredSeq(s, qe) == [i \in 1..Len(s) |-> WithScore(s[i], qe)]

\* the columns find_similar_snippets selects: no created_at, no updated_at
SimilarRecord(r, qe) ==
    [ id |-> r.id, citation |-> r.citation, key_language |-> r.key_language,
      tags |-> r.tags, context |-> r.context, case_type |-> r.case_type,
      similarity_score |-> SimilarityScore(r.combined_embedding, qe) ]

\* SELECT combined_embedding FROM legal_snippets WHERE id = $1
PgRefEmbedding(rows, snippet_id) ==
    (CHOOSE r \in PgRowsById(rows, snippet_id) : TRUE).combined_embedding

PgSimilarOrdersWithSelf(rows, snippet_id, limit) ==
    LET qe == PgRefEmbedding(rows, snippet_id)
    IN  UNION { { Limit(s, limit) : s \in { o \in SeqsOf(V) : OrderedByDistance(o, qe) } } :
                V \in ScanSets(rows, qe) }

\* ... WHERE id != $2 ORDER BY combined_embedding <=> $1 LIMIT $3
PgSimilarOrders(rows, snippet_id, limit) ==
    LET qe == PgRefEmbedding(rows, snippet_id)
    IN  UNION { { Limit(s, limit) : s \in { o \in SeqsOf(F) : OrderedByDistance(o, qe) } } :
                F \in { { r \in V : r.id # snippet_id } : V \in ScanSets(rows, qe) } }

SimilarSeq(s, qe) == [i \in 1..Len(s) |-> SimilarRecord(s[i], qe)]

----------------------------------------------------------------------------
(* Inputs of the tool calls *)

NoUpdate ==
    [citation |-> None, key_language |-> None, tags |-> None, context |-> None,
     case_type |-> NoneS]

UpdateArgs ==
    { [NoUpdate EXCEPT !.tags = <<"t">>],
      [NoUpdate EXCEPT !.citation = <<"J", "o">>],
      [NoUpdate EXCEPT !.context = <<"n", "b">>],
      [NoUpdate EXCEPT !.tags = Empty, !.case_type = ""] }

\* the update_snippet calls of the concurrent callers: a tags-only update
RacingUpdateArgs == { [NoUpdate EXCEPT !.tags = <<"t">>] }

Ids == 1..MaxId

Queries == { Empty, <<"s", "m">>, <<"_">> }
SearchTags == { None, <<"k">> }
SearchArgs == [query : Queries, tags : SearchTags]

SemQueries == { <<"S", "m">> }
Limits == { 1, 2 }
Thresholds == { -50, 35, 55 }    \* -1.0, the default 0.7, 1.1
SemArgs ==
    [query : SemQueries, limit : Limits, similarity_threshold : { -50 }, tags : { None }]
    \cup [query : SemQueries, limit : { 2 }, similarity_threshold : Thresholds,
          tags : { None }]
    \cup [query : SemQueries, limit : { 2 }, similarity_threshold : { -50 },
          tags : { <<"k">> }]

FindArgs == [snippet_id : Ids, limit : Limits]

\* the find_similar_snippets calls of the concurrent callers
RacingFindArgs == [snippet_id : Ids, limit : { 1 }]

Formats == { "json", "text" }

----------------------------------------------------------------------------
(* JSON backend: the tool handlers *)

JsonVars == <<file>>
PgVars == <<table, serial, pool, model, loads>>

\* json.load raises on an unreadable or malformed document
JsonLoadFails == fault = "store" /\ file # <<>>

JsonCreateSnippet ==
    /\ backend = "json"
    /\ \E a \in CreateArgs :
         IF JsonLoadFails
         THEN /\ ret' = Raised("create_snippet", a)
              /\ UNCHANGED <<file, now, issued>>
         ELSE /\ load_snippets.next_id <= MaxId
              /\ \E t1 \in Ticks(now) : \E t2 \in Again(t1) :
                   /\ file' = save_snippets(JsonCreate(load_snippets, a, t1, t2))
                   /\ now' = t2
              /\ ret' = Returned("create_snippet", a, Created(JsonNextId(load_snippets)))
              /\ issued' = Append(issued, JsonNextId(load_snippets))
    /\ UNCHANGED <<backend, calls, inflight, PgVars, fault, deleted>>

JsonSearchSnippets ==
    /\ backend = "json"
    /\ \E a \in SearchArgs :
         ret' = IF JsonLoadFails THEN Raised("search_snippets", a)
                ELSE Returned("search_snippets", a, JsonSearch(load_snippets, a.query, a.tags))
    /\ UNCHANGED <<backend, calls, inflight, file, PgVars, now, fault, issued, deleted>>

JsonGetSnippet ==
    /\ backend = "json"
    /\ \E i \in Ids :
         ret' = IF JsonLoadFails THEN Raised("get_snippet", i)
                ELSE Returned("get_snippet", i, JsonGet(load_snippets, i))
    /\ UNCHANGED <<backend, calls, inflight, file, PgVars, now, fault, issued, deleted>>

JsonUpdateSnippet ==
    /\ backend = "json"
    /\ \E i \in Ids : \E a \in UpdateArgs :
         IF JsonLoadFails
         THEN /\ ret' = Raised("update_snippet", <<i, a>>)
              /\ UNCHANGED <<file, now>>
         ELSE IF JsonIndexOf(load_snippets, i) = 0
         THEN /\ ret' = Returned("update_snippet", <<i, a>>, NotFound)
              /\ UNCHANGED <<file, now>>
         ELSE /\ \E t \in Ticks(now) :
                   /\ file' = save_snippets(JsonUpdate(load_snippets, i, a, t))
                   /\ now' = t
              /\ ret' = Returned("update_snippet", <<i, a>>, Success)
    /\ UNCHANGED <<backend, calls, inflight, PgVars, fault, issued, deleted>>

JsonDeleteSnippet ==
    /\ backend = "json"
    /\ \E i \in Ids :
         IF JsonLoadFails
         THEN /\ ret' = Raised("delete_snippet", i)
              /\ UNCHANGED <<file, deleted>>
         ELSE IF JsonDeleteResult(load_snippets, i) = Success
         THEN /\ file' = save_snippets(JsonDelete(load_snippets, i))
              /\ ret' = Returned("delete_snippet", i, Success)
              /\ deleted' = deleted \cup {i}
         ELSE /\ ret' = Returned("delete_snippet", i, NotFound)
              /\ UNCHANGED <<file, deleted>>
    /\ UNCHANGED <<backend, calls, inflight, PgVars, now, fault, issued>>

JsonListTagsCall ==
    /\ backend = "json"
    /\ ret' = IF JsonLoadFails THEN Raised("list_tags", <<>>)
              ELSE Returned("list_tags", <<>>, JsonListTags(load_snippets))
    /\ UNCHANGED <<backend, calls, inflight, file, PgVars, now, fault, issued, deleted>>

JsonExportSnippets ==
    /\ backend = "json"
    /\ \E format \in Formats :
         ret' = IF JsonLoadFails THEN Raised("export_snippets", format)
                ELSE Returned("export_snippets", format, JsonExport(load_snippets, format))
    /\ UNCHANGED <<backend, calls, inflight, file, PgVars, now, fault, issued, deleted>>

----------------------------------------------------------------------------
(* Relational backend: the tool handlers *)

\* what entering `async with get_db()` does to the globals
EnterGetDb ==
    pool' = PoolAfterGetDb /\ model' = ModelAfterGetDb /\ loads' = LoadsAfterGetDb

PgCreateSnippet ==
    /\ backend = "pg"
    /\ \E a \in CreateArgs :
         IF ~EncodeOk
         THEN /\ ret' = Returned("create_snippet", a, Failed)
              /\ UNCHANGED <<table, serial, pool, model, loads, now, issued>>
         ELSE IF ~GetDbOk
         THEN /\ ret' = Returned("create_snippet", a, Failed)
              /\ EnterGetDb
              /\ UNCHANGED <<table, serial, now, issued>>
         ELSE /\ serial < MaxId
              /\ \E t \in Ticks(now) :
                   /\ table' = table \cup
                        { PgInsertRow(PgNextval(serial), a,
                            generate_embeddings(a.citation, a.key_language, a.context), t) }
                   /\ now' = t
              /\ serial' = PgNextval(serial)
              /\ EnterGetDb
              /\ ret' = Returned("create_snippet", a, Created(PgNextval(serial)))
              /\ issued' = Append(issued, PgNextval(serial))
    /\ UNCHANGED <<backend, calls, inflight, JsonVars, fault, deleted>>

PgSearchSnippets ==
    /\ backend = "pg"
    /\ \E a \in SearchArgs :
         IF ~GetDbOk
         THEN ret' = Returned("search_snippets", a, <<ErrorEntry>>)
         ELSE \E s \in PgSearchOrders(table, a.query, a.tags) :
                 ret' = Returned("search_snippets", a, PublicSeq(s))
    /\ EnterGetDb
    /\ UNCHANGED <<backend, calls, inflight, JsonVars, table, serial, now, fault, issued, deleted>>

PgSemanticSearch ==
    /\ backend = "pg"
    /\ \E a \in SemArgs :
         IF ~EncodeOk
         THEN /\ ret' = Returned("semantic_search", a, <<ErrorEntry>>)
              /\ UNCHANGED <<pool, model, loads>>
         ELSE /\ IF ~GetDbOk
                 THEN ret' = Returned("semantic_search", a, <<ErrorEntry>>)
                 ELSE \E s \in SemanticOrders(table, encode_text(a.query), a.limit,
                                              a.similarity_threshold, a.tags) :
                         ret' = Returned("semantic_search", a,
                                         ScoredSeq(s, encode_text(a.query)))
              /\ EnterGetDb
    /\ UNCHANGED <<backend, calls, inflight, JsonVars, table, serial, now, fault, issued, deleted>>

PgGetSnippet ==
    /\ backend = "pg"
    /\ \E i \in Ids :
         ret' = IF ~GetDbOk THEN Returned("get_snippet", i, ErrorEntry)
                ELSE Returned("get_snippet", i, PgGet(table, i))
    /\ EnterGetDb
    /\ UNCHANGED <<backend, calls, inflight, JsonVars, table, serial, now, fault, issued, deleted>>

PgUpdateSnippet ==
    /\ backend = "pg"
    /\ \E i \in Ids : \E a \in UpdateArgs :
         IF ~GetDbOk
         THEN /\ ret' = Returned("update_snippet", <<i, a>>, Failed)
              /\ UNCHANGED <<table, now>>
         ELSE IF PgRowsById(table, i) = {}
         THEN /\ ret' = Returned("update_snippet", <<i, a>>, NotFound)
              /\ UNCHANGED <<table, now>>
         ELSE IF PgTextChanged(a) /\ ~(ModelAfterGetDb /\ fault # "embedding")
         THEN /\ ret' = Returned("update_snippet", <<i, a>>, Failed)
              /\ UNCHANGED <<table, now>>
         ELSE /\ \E t \in Ticks(now) :
                   /\ table' = PgUpdate(table, i, PgCurrent(table, i), a, t)
                   /\ now' = t
              /\ ret' = Returned("update_snippet", <<i, a>>, Success)
    /\ EnterGetDb
    /\ UNCHANGED <<backend, calls, inflight, JsonVars, serial, fault, issued, deleted>>

PgDeleteSnippet ==
    /\ backend = "pg"
    /\ \E i \in Ids :
         IF ~GetDbOk
         THEN /\ ret' = Returned("delete_snippet", i, Failed)
              /\ UNCHANGED <<table, deleted>>
         ELSE IF PgDeleteResult(table, i) = Success
         THEN /\ table' = PgDelete(table, i)
              /\ ret' = Returned("delete_snippet", i, Success)
              /\ deleted' = deleted \cup {i}
         ELSE /\ ret' = Returned("delete_snippet", i, NotFound)
              /\ UNCHANGED <<table, deleted>>
    /\ EnterGetDb
    /\ UNCHANGED <<backend, calls, inflight, JsonVars, serial, now, fault, issued>>

PgFindSimilarSnippets ==
    /\ backend = "pg"
    /\ \E a \in FindArgs :
         IF ~GetDbOk
         THEN ret' = Returned("find_similar_snippets", a, <<ErrorEntry>>)
         ELSE IF PgRowsById(table, a.snippet_id) = {}
         THEN ret' = Returned("find_similar_snippets", a, <<NotFoundEntry>>)
         ELSE \E s \in PgSimilarOrders(table, a.snippet_id, a.limit) :
                 ret' = Returned("find_similar_snippets", a,
                                 SimilarSeq(s, PgRefEmbedding(table, a.snippet_id)))
    /\ EnterGetDb
    /\ UNCHANGED <<backend, calls, inflight, JsonVars, table, serial, now, fault, issued, deleted>>

PgListTagsCall ==
    /\ backend = "pg"
    /\ ret' = IF ~GetDbOk THEN Returned("list_tags", <<>>, ErrorTags)
              ELSE Returned("list_tags", <<>>, PgListTags(table))
    /\ EnterGetDb
    /\ UNCHANGED <<backend, calls, inflight, JsonVars, table, serial, now, fault, issued, deleted>>

PgExportSnippets ==
    /\ backend = "pg"
    /\ \E format \in Formats :
         IF ~GetDbOk
         THEN ret' = Returned("export_snippets", format, ExportFailed)
         ELSE \E s \in PgExportOrders(table) :
                 ret' = Returned("export_snippets", format, PgExport(s, format))
    /\ EnterGetDb
    /\ UNCHANGED <<backend, calls, inflight, JsonVars, table, serial, now, fault, issued, deleted>>

----------------------------------------------------------------------------
(* Relational backend: update_snippet calls of concurrent clients.  The handler   *)
(* awaits its SELECT and later its UPDATE; other handlers run in between.         *)

\* the clients that may have a call running at the same time
Clients == { "c1", "c2" }

\* a client with no call running
Idle == [pc |-> "idle", op |-> "none", held |-> 0]

\* a call that has read `current` and has not yet sent its UPDATE; calls that agree
\* on snippet_id, arguments and the values read are not told apart
AfterSelect(i, a, current) == [id |-> i, args |-> a, current |-> current]

\* update_snippet up to and including `current = await conn.fetchrow(...)`
PgUpdateSelectStep ==
    /\ backend = "pg"
    /\ Cardinality(inflight) < Cardinality(Clients)
    /\ \E i \in Ids : \E a \in UpdateArgs :
         IF ~GetDbOk
         THEN /\ ret' = Returned("update_snippet", <<i, a>>, Failed)
              /\ UNCHANGED inflight
         ELSE IF PgRowsById(table, i) = {}
         THEN /\ ret' = Returned("update_snippet", <<i, a>>, NotFound)
              /\ UNCHANGED inflight
         ELSE /\ inflight' = inflight \cup { AfterSelect(i, a, PgCurrent(table, i)) }
              /\ UNCHANGED ret
    /\ EnterGetDb
    /\ UNCHANGED <<backend, calls, JsonVars, table, serial, now, fault, issued, deleted>>

\* update_snippet from generate_embeddings to its return
PgUpdateWriteStep ==
    /\ backend = "pg"
    /\ \E call \in inflight :
         /\ IF PgTextChanged(call.args) /\ ~EncodeOk
            THEN /\ ret' = Returned("update_snippet", <<call.id, call.args>>, Failed)
                 /\ UNCHANGED <<table, now>>
            ELSE /\ \E t \in Ticks(now) :
                      /\ table' = PgUpdate(table, call.id, call.current, call.args, t)
                      /\ now' = t
                 /\ ret' = Returned("update_snippet", <<call.id, call.args>>, Success)
         /\ inflight' = inflight \ { call }
    /\ UNCHANGED <<backend, calls, JsonVars, serial, pool, model, loads, fault, issued, deleted>>

----------------------------------------------------------------------------
(* Relational backend: a call's way through `async with get_db() as conn`.         *)
(* calls[c].pc is "idle", "create_pool" (in initialize_db, awaiting create_pool),   *)
(* "init" (in initialize_db, inside its own `async with _db_pool.acquire()`),       *)
(* "acquire" (in get_db, before `_db_pool.acquire()`) or "body" (inside the block); *)
(* calls[c].held counts the connections the call has checked out.                   *)

PoolOps == { "create_snippet", "update_snippet", "find_similar_snippets" }

\* what each operation returns from its `except Exception` clause
ErrorOf(op) == IF op = "find_similar_snippets" THEN <<ErrorEntry>> ELSE Failed

At(c, pc, op, held) == calls' = [calls EXCEPT ![c] = [pc |-> pc, op |-> op, held |-> held]]

ReleasedAtExitReturnOnly(path) == IF path = "return" THEN 1 ELSE 0

\* `async with _db_pool.acquire()`: __aexit__ releases the connection however the
\* block is left: "return" at its end, "not_found" from inside it, "raise"
ReleasedAtExit(path) == 1

\* the call starts: create_snippet encodes first; get_db() tests _db_pool
PoolCall ==
    /\ backend = "pg"
    /\ \E c \in Clients : \E op \in PoolOps :
         /\ calls[c].pc = "idle"
         /\ IF op = "create_snippet" /\ ~EncodeOk
            THEN /\ \E a \in CreateArgs : ret' = Returned(op, a, Failed)
                 /\ UNCHANGED calls
            ELSE /\ At(c, IF pool THEN "acquire" ELSE "create_pool", op, calls[c].held)
                 /\ UNCHANGED ret
    /\ UNCHANGED <<backend, inflight, JsonVars, PgVars, now, fault, issued, deleted>>

\* initialize_db: create_pool returns, the model is initialized, a connection is
\* acquired for the DDL statements
PoolCreated ==
    /\ backend = "pg"
    /\ \E c \in Clients :
         /\ calls[c].pc = "create_pool"
         /\ At(c, "init", calls[c].op, calls[c].held + 1)
    /\ pool' = TRUE
    /\ model' = TRUE
    /\ loads' = LoadsAfterInitialize(model, loads)
    /\ UNCHANGED <<backend, inflight, JsonVars, table, serial, now, fault, ret, issued,
                   deleted>>

\* initialize_db: the DDL block is left, at its end or by a statement raising
PoolInitialized ==
    /\ backend = "pg"
    /\ \E c \in Clients : \E path \in { "return", "raise" } :
         /\ calls[c].pc = "init"
         /\ IF path = "raise"
            THEN /\ At(c, "idle", "none", calls[c].held - ReleasedAtExit(path))
                 /\ ret' = Returned(calls[c].op, <<>>, ErrorOf(calls[c].op))
            ELSE /\ At(c, "acquire", calls[c].op, calls[c].held - ReleasedAtExit(path))
                 /\ UNCHANGED ret
    /\ UNCHANGED <<backend, inflight, JsonVars, PgVars, now, fault, issued, deleted>>

\* get_db: `async with _db_pool.acquire() as conn: yield conn`
PoolAcquire ==
    /\ backend = "pg"
    /\ \E c \in Clients :
         /\ calls[c].pc = "acquire"
         /\ At(c, "body", calls[c].op, calls[c].held + 1)
    /\ UNCHANGED <<backend, inflight, JsonVars, PgVars, now, fault, ret, issued, deleted>>

\* a statement of the block raises: the handler returns its error value
PoolRaise ==
    /\ backend = "pg"
    /\ \E c \in Clients :
         /\ calls[c].pc = "body"
         /\ At(c, "idle", "none", calls[c].held - ReleasedAtExit("raise"))
         /\ ret' = Returned(calls[c].op, <<>>, ErrorOf(calls[c].op))
    /\ UNCHANGED <<backend, inflight, JsonVars, PgVars, now, fault, issued, deleted>>

PoolCreateBody ==
    /\ backend = "pg"
    /\ \E c \in Clients : \E a \in CreateArgs : \E t \in Ticks(now) :
         /\ calls[c].pc = "body" /\ calls[c].op = "create_snippet"
         /\ serial < MaxId
         /\ table' = table \cup
               { PgInsertRow(PgNextval(serial), a,
                     generate_embeddings(a.citation, a.key_language, a.context), t) }
         /\ now' = t
         /\ serial' = PgNextval(serial)
         /\ ret' = Returned("create_snippet", a, Created(PgNextval(serial)))
         /\ issued' = Append(issued, PgNextval(serial))
         /\ At(c, "idle", "none", calls[c].held - ReleasedAtExit("return"))
    /\ UNCHANGED <<backend, inflight, JsonVars, pool, model, loads, fault, deleted>>

PoolUpdateBody ==
    /\ backend = "pg"
    /\ \E c \in Clients : \E i \in Ids : \E a \in RacingUpdateArgs :
         /\ calls[c].pc = "body" /\ calls[c].op = "update_snippet"
         /\ IF PgRowsById(table, i) = {}
            THEN /\ ret' = Returned("update_snippet", <<i, a>>, NotFound)
                 /\ At(c, "idle", "none", calls[c].held - ReleasedAtExit("not_found"))
                 /\ UNCHANGED <<table, now>>
            ELSE /\ \E t \in Ticks(now) :
                      /\ table' = PgUpdate(table, i, PgCurrent(table, i), a, t)
                      /\ now' = t
                 /\ ret' = Returned("update_snippet", <<i, a>>, Success)
                 /\ At(c, "idle", "none", calls[c].held - ReleasedAtExit("return"))
    /\ UNCHANGED <<backend, inflight, JsonVars, serial, pool, model, loads, fault, issued,
                   deleted>>

PoolFindSimilarBody ==
    /\ backend = "pg"
    /\ \E c \in Clients : \E a \in RacingFindArgs :
         /\ calls[c].pc = "body" /\ calls[c].op = "find_similar_snippets"
         /\ IF PgRowsById(table, a.snippet_id) = {}
            THEN /\ ret' = Returned("find_similar_snippets", a, <<NotFoundEntry>>)
                 /\ At(c, "idle", "none", calls[c].held - ReleasedAtExit("not_found"))
            ELSE /\ \E s \in PgSimilarOrders(table, a.snippet_id, a.limit) :
                      ret' = Returned("find_similar_snippets", a,
                                      SimilarSeq(s, PgRefEmbedding(table, a.snippet_id)))
                 /\ At(c, "idle", "none", calls[c].held - ReleasedAtExit("return"))
    /\ UNCHANGED <<backend, inflight, JsonVars, PgVars, now, fault, issued, deleted>>

----------------------------------------------------------------------------
(* JSON backend: mutating calls of concurrent callers (server processes or threads  *)
(* sharing legal_snippets.json). A call is its load_snippets() and, later, its      *)
(* save_snippets(); nothing locks the file in between.                              *)

\* a call that has run `data = load_snippets()` and has not yet saved; id is 0 for
\* create_snippet, which takes none
JsonLoaded(c, op, id, args, data) ==
    [client |-> c, op |-> op, id |-> id, args |-> args, data |-> data]

JsonInMemoryReloaded(call) == load_snippets

\* the document the handler modifies and saves: the one it loaded
JsonInMemory(call) == call.data

JsonCreateLoadStep ==
    /\ backend = "json"
    /\ \E c \in Clients : \E a \in CreateArgs :
         /\ \A call \in inflight : call.client # c
         /\ IF JsonLoadFails
            THEN /\ ret' = Raised("create_snippet", a)
                 /\ UNCHANGED inflight
            ELSE /\ load_snippets.next_id <= MaxId
                 /\ inflight' = inflight \cup
                       { JsonLoaded(c, "create_snippet", 0, a, load_snippets) }
                 /\ UNCHANGED ret
    /\ UNCHANGED <<backend, calls, file, PgVars, now, fault, issued, deleted>>

JsonUpdateLoadStep ==
    /\ backend = "json"
    /\ \E c \in Clients : \E i \in Ids : \E a \in RacingUpdateArgs :
         /\ \A call \in inflight : call.client # c
         /\ IF JsonLoadFails
            THEN /\ ret' = Raised("update_snippet", <<i, a>>)
                 /\ UNCHANGED inflight
            ELSE IF JsonIndexOf(load_snippets, i) = 0
            THEN /\ ret' = Returned("update_snippet", <<i, a>>, NotFound)
                 /\ UNCHANGED inflight
            ELSE /\ inflight' = inflight \cup
                       { JsonLoaded(c, "update_snippet", i, a, load_snippets) }
                 /\ UNCHANGED ret
    /\ UNCHANGED <<backend, calls, file, PgVars, now, fault, issued, deleted>>

\* from the modification in memory to the return, save_snippets(data) included
JsonSaveStep ==
    /\ backend = "json"
    /\ \E call \in inflight :
         /\ IF call.op = "create_snippet"
            THEN /\ \E t1 \in Ticks(now) : \E t2 \in Again(t1) :
                      /\ file' = save_snippets(JsonCreate(JsonInMemory(call), call.args, t1, t2))
                      /\ now' = t2
                 /\ ret' = Returned("create_snippet", call.args,
                                    Created(JsonNextId(JsonInMemory(call))))
                 /\ issued' = Append(issued, JsonNextId(JsonInMemory(call)))
            ELSE /\ \E t \in Ticks(now) :
                      /\ file' = save_snippets(JsonUpdate(JsonInMemory(call), call.id,
                                                          call.args, t))
                      /\ now' = t
                 /\ ret' = Returned("update_snippet", <<call.id, call.args>>, Success)
                 /\ UNCHANGED issued
         /\ inflight' = inflight \ { call }
    /\ UNCHANGED <<backend, calls, PgVars, fault, deleted>>

----------------------------------------------------------------------------
(* The environment: the store or the embedding model fails or recovers *)

EnvFault ==
    /\ \E f \in { "none", "store", "embedding" } : f # fault /\ fault' = f
    /\ UNCHANGED <<backend, calls, inflight, file, table, serial, pool, model, loads, now, ret, issued,
                   deleted>>

----------------------------------------------------------------------------
(* Specifications *)

NoCall == [op |-> "none", args |-> <<>>, raised |-> FALSE, val |-> <<>>]

\* The JSON server starts with no document on disk; the relational server is run as
\* a script, which awaits startup() before it serves a call.
Init ==
    /\ backend \in { "json", "pg" }
    /\ file = <<>>
    /\ table = {}
    /\ serial = 0
    /\ pool = (backend = "pg")
    /\ model = pool
    /\ loads = IF model THEN 1 ELSE 0
    /\ now = 0
    /\ fault = "none"
    /\ ret = NoCall
    /\ issued = <<>>
    /\ deleted = {}
    /\ inflight = {}
    /\ calls = [c \in Clients |-> Idle]

Next ==
    \/ JsonCreateSnippet
    \/ JsonSearchSnippets
    \/ JsonGetSnippet
    \/ JsonUpdateSnippet
    \/ JsonDeleteSnippet
    \/ PgCreateSnippet
    \/ PgSearchSnippets
    \/ PgGetSnippet
    \/ PgUpdateSnippet
    \/ PgDeleteSnippet

\* create, get, update, delete and search_snippets, called one at a time, no
\* failures of the environment
Spec == Init /\ [][Next]_vars

\* the same store under list_tags and export_snippets: the calls that change the
\* store, and these two
NextViews ==
    \/ JsonCreateSnippet
    \/ JsonUpdateSnippet
    \/ JsonDeleteSnippet
    \/ JsonListTagsCall
    \/ JsonExportSnippets
    \/ PgCreateSnippet
    \/ PgUpdateSnippet
    \/ PgDeleteSnippet
    \/ PgListTagsCall
    \/ PgExportSnippets

SpecViews == Init /\ [][NextViews]_vars

\* the same, with the store or the embedding model failing at any time
SpecFault == Init /\ [][Next \/ EnvFault]_vars

\* the relational backend serving concurrent clients: the single-statement handlers
\* are atomic, update_snippet is its SELECT step and its UPDATE step
NextConc ==
    \/ PgCreateSnippet
    \/ PgUpdateSelectStep
    \/ PgUpdateWriteStep

\* the relational server, run as a script
InitConc == Init /\ backend = "pg"

SpecConc == InitConc /\ [][NextConc]_vars

\* the relational store under semantic_search
NextSemantic ==
    \/ PgCreateSnippet
    \/ PgUpdateSnippet
    \/ PgDeleteSnippet
    \/ PgSemanticSearch

SpecSemantic == InitConc /\ [][NextSemantic]_vars

\* the relational store under find_similar_snippets
NextSimilar ==
    \/ PgCreateSnippet
    \/ PgUpdateSnippet
    \/ PgDeleteSnippet
    \/ PgFindSimilarSnippets

SpecSimilar == InitConc /\ [][NextSimilar]_vars

\* the JSON backend serving concurrent callers
NextJsonConc ==
    \/ JsonCreateLoadStep
    \/ JsonUpdateLoadStep
    \/ JsonSaveStep

InitJsonConc == Init /\ backend = "json"

SpecJsonConc == InitJsonConc /\ [][NextJsonConc]_vars

\* The relational server either run as a script (startup() has run) or imported and
\* served by a host that never calls startup(): get_db() then initializes on first use.
InitStart ==
    /\ backend = "pg"
    /\ file = <<>>
    /\ table = {}
    /\ serial = 0
    /\ pool \in BOOLEAN
    /\ model = pool
    /\ loads = IF model THEN 1 ELSE 0
    /\ now = 0
    /\ fault = "none"
    /\ ret = NoCall
    /\ issued = <<>>
    /\ deleted = {}
    /\ inflight = {}
    /\ calls = [c \in Clients |-> Idle]

NextStart ==
    \/ PgCreateSnippet
    \/ PgSemanticSearch
    \/ PgUpdateSnippet
    \/ PgGetSnippet

\* the operations that encode text, and get_snippet, after either way of starting
SpecStart == InitStart /\ [][NextStart]_vars

\* the relational backend serving concurrent clients, with a call's acquiring and
\* releasing of connections as steps of their own, from a process in which
\* startup() has not run
NextPool ==
    \/ PoolCall
    \/ PoolCreated
    \/ PoolInitialized
    \/ PoolAcquire
    \/ PoolRaise
    \/ PoolCreateBody
    \/ PoolUpdateBody
    \/ PoolFindSimilarBody

InitPool == InitStart /\ ~pool

SpecPool == InitPool /\ [][NextPool]_vars

----------------------------------------------------------------------------
(* Views of the state used by the properties *)

\* the stored snippets, as get_snippet shows them, given the values of the variables
SnippetsOf(b, f, tb) ==
    IF b = "json"
    THEN IF f = <<>> THEN {} ELSE Range(f[1].snippets)
    ELSE { Public(r) : r \in tb }

\* what get_snippet(i) and delete_snippet(i) return when issued in the current state
GetNow(i) == IF backend = "json" THEN JsonGet(load_snippets, i) ELSE PgGet(table, i)
DeleteNow(i) ==
    IF backend = "json" THEN JsonDeleteResult(load_snippets, i) ELSE PgDeleteResult(table, i)

IsCall(r, op) == r.op = op /\ ~r.raised

----------------------------------------------------------------------------
(* C1: ids are unique and never reused *)

\* C1: on either backend, with calls executed one at a time, no two stored snippets
\* share an id, the ids returned by successful create_snippet calls are pairwise
\* different (also when an earlier snippet was deleted since), and in the JSON backend
\* next_id is greater than every id ever assigned.
C1_IdsUniqueNeverReused ==
    /\ backend = "json" =>
         /\ \A i, j \in 1..Len(load_snippets.snippets) :
               i # j => load_snippets.snippets[i].id # load_snippets.snippets[j].id
         /\ \A k \in 1..Len(issued) : issued[k] < load_snippets.next_id
    /\ backend = "pg" => \A r1, r2 \in table : r1 # r2 => r1.id # r2.id
    /\ \A i, j \in 1..Len(issued) : i # j => issued[i] # issued[j]

\* a create_snippet has just returned an id after an earlier snippet was deleted
C1_Witness ==
    /\ IsCall(ret, "create_snippet") /\ ret.val.status = "success"
    /\ Len(issued) >= 2
    /\ issued[1] \in deleted

----------------------------------------------------------------------------
(* C2: create then get *)

\* C2: on either backend, right after create_snippet(args) returned success with
\* snippet_id i, get_snippet(i) returns a record with id i, with the citation,
\* key_language, tags, context and case_type given to create_snippet, and with
\* created_at not later than updated_at.
C2_CreateThenGet ==
    (IsCall(ret, "create_snippet") /\ ret.val.status = "success") =>
        /\ GetNow(ret.val.snippet_id).found
        /\ LET s == GetNow(ret.val.snippet_id).snippet
           IN  /\ s.id = ret.val.snippet_id
               /\ s.citation = ret.args.citation
               /\ s.key_language = ret.args.key_language
               /\ s.tags = ret.args.tags
               /\ s.context = ret.args.context
               /\ s.case_type = ret.args.case_type
               /\ s.created_at <= s.updated_at

\* a create_snippet with a context and a non-default case_type has just succeeded
C2_Witness ==
    /\ IsCall(ret, "create_snippet") /\ ret.val.status = "success"
    /\ ret.args.case_type = "criminal" /\ ret.args.context # Empty
    /\ GetNow(ret.val.snippet_id).found

----------------------------------------------------------------------------
(* C3: a deleted snippet stays deleted *)

C3_State ==
    /\ \A i \in deleted : GetNow(i) = NoSnippet /\ DeleteNow(i) = NotFound
    /\ (IsCall(ret, "get_snippet") /\ ret.args \in deleted) => ret.val = NoSnippet

C3_Step ==
    (IsCall(ret', "delete_snippet") /\ ret'.args \in deleted) => ret'.val = NotFound

\* C3: on either backend, once delete_snippet(i) has returned success, every later
\* get_snippet(i) returns None and every later delete_snippet(i) returns the not-found
\* error, whatever calls are executed in between.
C3_DeletedStaysDeleted == [](C3_State) /\ [][C3_Step]_vars

\* get_snippet(i) has just been answered for a deleted i, after a later create
C3_Witness ==
    /\ IsCall(ret, "get_snippet") /\ ret.args \in deleted
    /\ \E k \in 1..Len(issued) : issued[k] > ret.args

----------------------------------------------------------------------------
(* C4: update_snippet with tags only *)

TagsOnly(a) ==
    /\ ~Falsy(a.tags)
    /\ a.citation = None /\ a.key_language = None /\ a.context = None
    /\ a.case_type = NoneS

C4_Step ==
    (IsCall(ret', "update_snippet") /\ ret'.val = Success /\ TagsOnly(ret'.args[2])) =>
        LET i == ret'.args[1]
            a == ret'.args[2]
            before == SnippetsOf(backend, file, table)
            after == SnippetsOf(backend', file', table')
        IN  /\ { s.id : s \in after } = { s.id : s \in before }
            /\ \A s \in before :
                 IF s.id = i
                 THEN \E s2 \in after :
                        /\ s2.id = i
                        /\ s2.tags = a.tags
                        /\ s2.updated_at = now' /\ s2.updated_at >= s.updated_at
                        /\ s2.citation = s.citation
                        /\ s2.key_language = s.key_language
                        /\ s2.context = s.context
                        /\ s2.created_at = s.created_at
                 ELSE s \in after

\* C4: on either backend, update_snippet(i, tags=T) with non-empty T and nothing else
\* supplied, on an existing snippet i, sets its tags to T and its updated_at to the time
\* of the call, and leaves its citation, key_language, context and created_at, and
\* every other snippet, unchanged.
C4_TagsOnlyUpdate == [][C4_Step]_vars

\* a tags-only update has just succeeded on a snippet that had other tags, with
\* another snippet stored beside it
C4_Witness ==
    /\ IsCall(ret, "update_snippet") /\ ret.val = Success /\ TagsOnly(ret.args[2])
    /\ \E s \in SnippetsOf(backend, file, table) :
          s.id = ret.args[1] /\ s.tags = ret.args[2].tags /\ s.updated_at > s.created_at
    /\ Cardinality(SnippetsOf(backend, file, table)) >= 2

----------------------------------------------------------------------------
(* C5: stored embeddings match the stored text *)

EmbeddingsMatch(r) ==
    /\ r.citation_embedding = encode_text(r.citation)
    /\ r.key_language_embedding = encode_text(r.key_language)
    /\ r.combined_embedding = encode_text(combined_text(r.citation, r.key_language, r.context))

\* C5: in every reachable state of the relational backend, also when the SELECT and
\* the UPDATE of concurrent update_snippet calls on one snippet interleave, every
\* row's three stored embeddings are the embeddings of its current citation,
\* key_language and context.
C5_EmbeddingsConsistent == \A r \in table : EmbeddingsMatch(r)

\* a call is between its SELECT and its UPDATE of a text field while the row's text
\* is no longer what it read: another call's text UPDATE went in between
C5_Witness ==
    \E call \in inflight :
        /\ PgTextChanged(call.args)
        /\ IsCall(ret, "update_snippet") /\ ret.val = Success
        /\ ret.args[1] = call.id /\ PgTextChanged(ret.args[2])
        /\ \E r \in table : r.id = call.id /\ PgCurrent(table, r.id) # call.current

----------------------------------------------------------------------------
(* C6: failures are returned, not raised *)

\* C6: every tool operation of either backend, when the store or the embedding model
\* fails during it, returns a structured error value and never lets the failure
\* propagate to the caller as a raised exception.
C6_NoFailurePropagates == ~ret.raised

----------------------------------------------------------------------------
(* C7, C8, C9: search_snippets *)

\* the criteria as the specification states them: a case-insensitive substring of one
\* of the three text fields
HasSubstring(s, query) ==
    \/ Contains(LowerText(query), LowerText(s.citation))
    \/ Contains(LowerText(query), LowerText(s.key_language))
    \/ Contains(LowerText(query), LowerText(s.context))

Satisfies(s, query, tags) ==
    /\ ~Falsy(query) => HasSubstring(s, query)
    /\ ~Falsy(tags) => TagsOverlap(s.tags, tags)

Stored == SnippetsOf(backend, file, table)

\* C7: on the relational backend search_snippets(query, tags) returns exactly the
\* stored snippets that satisfy every supplied criterion (query a case-insensitive
\* substring of citation, key_language or context; a supplied tag among the tags).
C7_SearchReturnsExactlyMatches ==
    (backend = "pg" /\ IsCall(ret, "search_snippets")) =>
        Range(ret.val) = { s \in Stored : Satisfies(s, ret.args.query, ret.args.tags) }

\* C8: for the same stored snippets and the same (query, tags), the JSON backend and
\* the relational backend return the same set of snippets; stated for the case the
\* claim names, both query and tags non-empty: what a backend returned is what the
\* other backend's search selects from the same snippets.
C8_SearchSameOnBothBackends ==
    (IsCall(ret, "search_snippets") /\ ~Falsy(ret.args.query) /\ ~Falsy(ret.args.tags)) =>
        Range(ret.val) =
            IF backend = "json"
            THEN { s \in Stored : PgMatches(s, ret.args.query, ret.args.tags) }
            ELSE { s \in Stored : JsonMatches(s, ret.args.query, ret.args.tags) }

\* C9: on either backend search_snippets returns its matches ordered by updated_at
\* descending, and every stored snippet when neither query nor tags is supplied.
C9_SearchOrderedByUpdatedAt ==
    IsCall(ret, "search_snippets") =>
        /\ OrderedByUpdatedDesc(ret.val)
        /\ (Falsy(ret.args.query) /\ Falsy(ret.args.tags)) => Range(ret.val) = Stored

----------------------------------------------------------------------------
(* C10: semantic_search *)

\* the score of a stored row against the query of the last call
ScoreOf(r) == SimilarityScore(r.combined_embedding, encode_text(ret.args.query))

Qualifies(r) ==
    /\ ScoreOf(r) >= ret.args.similarity_threshold
    /\ Falsy(ret.args.tags) \/ TagsOverlap(r.tags, ret.args.tags)

C10_Bounded ==
    /\ Len(ret.val) <= ret.args.limit
    /\ \A k \in 1..Len(ret.val) :
         /\ \E r \in table : Public(r).id = ret.val[k].id /\ ret.val[k] = WithScore(r, encode_text(ret.args.query))
         /\ ret.val[k].similarity_score >= ret.args.similarity_threshold
         /\ Falsy(ret.args.tags) \/ TagsOverlap(ret.val[k].tags, ret.args.tags)
    /\ \A j, k \in 1..Len(ret.val) :
         j < k => ret.val[j].similarity_score >= ret.val[k].similarity_score
    /\ ret.args.similarity_threshold > 50 => ret.val = <<>>

C10_NoneBetterLeftOut ==
    \A r \in table :
        (Qualifies(r) /\ \A k \in 1..Len(ret.val) : ret.val[k].id # r.id) =>
            \A k \in 1..Len(ret.val) : ScoreOf(r) <= ret.val[k].similarity_score

\* C10 as claimed: semantic_search returns at most limit records, each scoring at
\* least similarity_threshold and sharing a tag with tags when tags is given, ordered
\* by score descending, no qualifying stored record outside the result scores higher
\* than a returned one, and the result is empty for a threshold above 1.
C10_AsClaimed ==
    (IsCall(ret, "semantic_search") /\ ret.val # <<ErrorEntry>>) =>
        C10_Bounded /\ C10_NoneBetterLeftOut

\* C10 as amended: the same without the clause that no better record is left out.
\* semantic_search returns at most limit records, each a stored record with its score,
\* scoring at least similarity_threshold and sharing a tag with tags when tags is
\* given, ordered by score descending; empty for a threshold above 1.
C10_SemanticSearchBounded ==
    (IsCall(ret, "semantic_search") /\ ret.val # <<ErrorEntry>>) => C10_Bounded

\* a semantic_search has returned two records with different scores
C10_Witness ==
    /\ IsCall(ret, "semantic_search") /\ ret.val # <<ErrorEntry>>
    /\ Len(ret.val) = 2
    /\ ret.val[1].similarity_score > ret.val[2].similarity_score

----------------------------------------------------------------------------
(* C11: find_similar_snippets *)

\* the row the last find_similar_snippets call referred to
C11_Ref == CHOOSE r \in table : r.id = ret.args.snippet_id

\* C11: on the relational backend find_similar_snippets(i, limit) for a stored i
\* returns at most limit records, each a stored record other than i with its
\* similarity to snippet i's combined embedding, ordered by that similarity
\* descending; for an id that is not stored it returns the single not-found entry.
C11_FindSimilar ==
    (IsCall(ret, "find_similar_snippets") /\ ret.val # <<ErrorEntry>>) =>
        IF \E r \in table : r.id = ret.args.snippet_id
        THEN /\ Len(ret.val) <= ret.args.limit
             /\ \A k \in 1..Len(ret.val) :
                  /\ ret.val[k].id # ret.args.snippet_id
                  /\ \E r \in table :
                        ret.val[k] = SimilarRecord(r, C11_Ref.combined_embedding)
             /\ \A j, k \in 1..Len(ret.val) :
                  j < k => ret.val[j].similarity_score >= ret.val[k].similarity_score
        ELSE ret.val = <<NotFoundEntry>>

\* find_similar_snippets has returned two records with different scores while a
\* third row, the reference, is stored
C11_Witness ==
    /\ IsCall(ret, "find_similar_snippets")
    /\ \E r \in table : r.id = ret.args.snippet_id
    /\ Len(ret.val) = 2
    /\ ret.val[1].similarity_score > ret.val[2].similarity_score

----------------------------------------------------------------------------
(* C12: list_tags *)

\* C12: on either backend list_tags returns the tags of the currently stored
\* snippets, every tag of a stored snippet and no other, each once, in ascending
\* order; so a tag whose only carriers were deleted, or lost it in an update, is absent.
C12_ListTags ==
    (IsCall(ret, "list_tags") /\ ret.val # ErrorTags) =>
        /\ Range(ret.val) = UNION { Range(s.tags) : s \in Stored }
        /\ \A j, k \in 1..Len(ret.val) : j < k => TagCode(ret.val[j]) < TagCode(ret.val[k])

\* list_tags has returned two tags, "k" not among them, while two snippets are stored
\* and the tags of one of them were replaced by an update
C12_Witness ==
    /\ IsCall(ret, "list_tags")
    /\ Len(ret.val) = 2 /\ "k" \notin Range(ret.val)
    /\ Cardinality(Stored) >= 2
    /\ \E s \in Stored : s.updated_at > s.created_at /\ s.tags = <<"t">>

----------------------------------------------------------------------------
(* C13: export_snippets("json") *)

\* a member of the parsed export with its timestamps read back as clock values
C13_Read(m) ==
    IF backend = "json" THEN m
    ELSE [ m EXCEPT !.created_at = fromisoformat(m.created_at),
                    !.updated_at = fromisoformat(m.updated_at) ]

C13_Members == [i \in 1..Len(json_loads(ret.val)) |-> C13_Read(json_loads(ret.val)[i])]

C13_State ==
    (IsCall(ret, "export_snippets") /\ ret.args = "json") =>
        /\ IsJsonList(ret.val)
        /\ Len(C13_Members) = Cardinality(Stored)
        /\ Range(C13_Members) = Stored
        /\ \A j, k \in 1..Len(C13_Members) :
              j < k => C13_Members[j].created_at <= C13_Members[k].created_at

C13_Step ==
    IsCall(ret', "export_snippets") => file' = file /\ table' = table /\ serial' = serial

\* C13: on either backend the document export_snippets("json") returns parses to a
\* list with exactly one member per currently stored snippet, nothing filtered out,
\* in ascending order of created_at, and the call leaves the store as it was.
C13_ExportJson == [](C13_State) /\ [][C13_Step]_vars

\* the export lists two snippets, the first of them updated after the second: the
\* order is that of creation, not that of the last update
C13_Witness ==
    /\ IsCall(ret, "export_snippets") /\ ret.args = "json"
    /\ Len(C13_Members) = 2
    /\ C13_Members[1].updated_at > C13_Members[2].updated_at

----------------------------------------------------------------------------
(* C14: update_snippet with absent or falsy arguments *)

C14_Step ==
    (IsCall(ret', "update_snippet") /\ ret'.val = Success) =>
        LET i == ret'.args[1]
            a == ret'.args[2]
        IN  \A s \in SnippetsOf(backend, file, table) :
              s.id = i =>
                \E s2 \in SnippetsOf(backend', file', table') :
                   /\ s2.id = i
                   /\ Falsy(a.citation) => s2.citation = s.citation
                   /\ Falsy(a.key_language) => s2.key_language = s.key_language
                   /\ Falsy(a.tags) => s2.tags = s.tags
                   /\ Falsy(a.context) => s2.context = s.context
                   /\ FalsyS(a.case_type) => s2.case_type = s.case_type

\* C14: on either backend a successful update_snippet leaves each of citation,
\* key_language, tags, context and case_type of the snippet as it was when the
\* argument passed for it was absent or falsy (None, "", []).
C14_FalsyLeavesUnchanged == [][C14_Step]_vars

----------------------------------------------------------------------------
(* C15: the embedding model is loaded once, before it is used *)

C15_State == loads <= 1

\* create_snippet and semantic_search call encode_text before anything else,
\* update_snippet calls it after get_db() and the SELECT, when a text field is given
C15_Step ==
    /\ (backend = "pg" /\ ret'.op \in { "create_snippet", "semantic_search" }) => model
    /\ ( /\ backend = "pg" /\ ret'.op = "update_snippet"
         /\ ret'.val # NotFound /\ PgTextChanged(ret'.args[2]) ) => model'

\* C15: in the relational backend the embedding model is loaded at most once, and
\* every encode_text call of create_snippet, update_snippet and semantic_search is made
\* with the model loaded, after startup() as well as when get_db() initializes lazily.
C15_LoadedOnceBeforeUse == [](C15_State) /\ [][C15_Step]_vars

----------------------------------------------------------------------------
(* C16: JSON backend, interleaved load and save *)

\* the file never holds two records with one id
C16_State ==
    \A i, j \in 1..Len(load_snippets.snippets) :
        i # j => load_snippets.snippets[i].id # load_snippets.snippets[j].id

\* a call that saves in this step
C16_Saving(call) == call \in inflight /\ call \notin inflight'

C16_Step ==
    \A call \in inflight :
        C16_Saving(call) =>
            /\ \A s \in SnippetsOf(backend', file', table') :
                  \/ s \in Range(call.data.snippets)
                  \/ call.op = "create_snippet" /\ s.id = call.data.next_id
                  \/ call.op = "update_snippet" /\ s.id = call.id
            /\ { s.id : s \in SnippetsOf(backend', file', table') } =
                  { s.id : s \in Range(call.data.snippets) }
                  \cup (IF call.op = "create_snippet" THEN { call.data.next_id } ELSE {})
            /\ call.op = "create_snippet" =>
                  /\ ret'.val.snippet_id = call.data.next_id
                  /\ file'[1].next_id = call.data.next_id + 1

\* C16: in the JSON backend a mutating call saves the document it loaded, modified,
\* over whatever is in the file: the id create_snippet returns and the next_id it
\* leaves come from its own load, and after the save the file holds the records of
\* that load (the created or updated one apart) and nothing another call saved since;
\* two creates that loaded the same document return the same id and, ids being unique
\* within the file, at most one of their records stays.
C16_LostUpdates == [](C16_State) /\ [][C16_Step]_vars

\* two create_snippet calls have returned the same id and one record is in the file
C16_Witness ==
    /\ backend = "json" /\ inflight = {}
    /\ Len(issued) = 2 /\ issued[1] = issued[2]
    /\ IsCall(ret, "create_snippet")
    /\ Len(load_snippets.snippets) = 1

----------------------------------------------------------------------------
(* C17: pooled connections *)

\* the connections checked out of the pool
RECURSIVE C17_Sum(_)
C17_Sum(S) == IF S = {} THEN 0 ELSE LET c == CHOOSE x \in S : TRUE
                                   IN  calls[c].held + C17_Sum(S \ { c })

C17_CheckedOut == C17_Sum(Clients)

\* C17: in the relational backend a tool call holds at most one pooled connection at
\* any time while it runs and none once it has returned, by the end of its block, by
\* the early not-found return of update_snippet and find_similar_snippets or by a
\* failure raised inside; with every call completed no connection is checked out.
C17_ConnectionsReleased ==
    /\ \A c \in Clients :
         /\ calls[c].held \in { 0, 1 }
         /\ calls[c].pc = "idle" => calls[c].held = 0
    /\ (\A c \in Clients : calls[c].pc = "idle") => C17_CheckedOut = 0

\* a call has just returned not-found while the other client's call is inside its
\* block: one connection is checked out, held by the running call
C17_Witness ==
    /\ \/ ret.op = "update_snippet" /\ ret.val = NotFound
       \/ ret.op = "find_similar_snippets" /\ ret.val = <<NotFoundEntry>>
    /\ \E c, d \in Clients :
          /\ calls[c].pc = "idle" /\ calls[d].pc = "body"
          /\ calls[d].held = 1
    /\ C17_CheckedOut = 1
    /\ table # {}

====
